---- MODULE Spec2Model ----
(***************************************************************************)
(* OptimalLinearBounder (SOL/bounding.py): certified affine lower and      *)
(* upper bounds of a scalar function over a box, by regular sampling, a    *)
(* discrete fit and Lipschitz certification with adaptive subdivision.     *)
(*                                                                         *)
(* Numbers.  The program computes in floating point; the model computes    *)
(* the same expressions exactly, over integers.  Lengths are in units of   *)
(* the width tolerance of find_optimal_bounds (1e-5), values in a unit of  *)
(* their own.  The regions, sample counts and constants drawn below are    *)
(* such that every division the program performs on the modelled runs is   *)
(* exact (cell sides, half diameters, quarter offsets, 0.5 * L2 * r^2), so *)
(* \div never rounds.                                                      *)
(*                                                                         *)
(* Dimension.  _bound_one_side calls _get_G_bound first, which rejects     *)
(* every region of more than one axis; the sampler, the fit and the loop   *)
(* therefore only ever run on one axis, and are modelled for one axis.     *)
(***************************************************************************)
EXTENDS Integers, Sequences, FiniteSets

\* ------------------------------------------------------------------ bounds

\* Deepest subdivision level the model follows: a cell of the initial grid
\* has level 0, its children level 1, ...  A run that must split a cell of
\* level MaxDepth is not followed further (see Overrun).
MaxDepth == 3

\* The width tolerance of find_optimal_bounds, 1e-5, is the unit of length.
WidthTol == 1

\* Width of the modelled valid regions: with 3 or 4 initial cells the radius
\* of a cell of level MaxDepth is 4 or 3.
W == 24 * (2 ^ MaxDepth)

\* ------------------------------------------------------------ arithmetic

Abs(x) == IF x < 0 THEN -x ELSE x

Min2(x, y) == IF x < y THEN x ELSE y

SetMax(S) == CHOOSE x \in S : \A y \in S : y <= x

\* math.ceil(num / den) for den > 0
Ceil(num, den) == -((-num) \div den)

Idx(s) == 1 .. Len(s)

\* ---------------------------------------------------------------- inputs

\* A target function is a polynomial q*x^2 + a*x + b, given with its
\* derivative: the callables target_function and gradient.
TargetFunction(t, x) == t.q * x * x + t.a * x + t.b

Gradient(t, x) == 2 * t.q * x + t.a

\* -f with gradient -g
Neg(t) == [q |-> -t.q, a |-> -t.a, b |-> -t.b]

NegCoeffs(c) == <<-c[1], -c[2]>>

Constant5 == [q |-> 0, a |-> 0, b |-> 5]
Line1 == [q |-> 0, a |-> 1, b |-> 0]
LineM2 == [q |-> 0, a |-> -2, b |-> 7]
Square == [q |-> 1, a |-> 0, b |-> 0]

\* Constructor arguments (target and gradient, L1, L2, eps): L1 bounds the
\* derivative on every modelled region, L2 the change of the derivative.
Scenarios ==
    { [target |-> Constant5, L1 |-> 0, L2 |-> 0, eps |-> 4],
      [target |-> Line1, L1 |-> 1, L2 |-> 0, eps |-> 20],
      [target |-> Line1, L1 |-> 1, L2 |-> 2, eps |-> 20],
      [target |-> LineM2, L1 |-> 3, L2 |-> 0, eps |-> 60],
      [target |-> Square, L1 |-> 2 * W, L2 |-> 2, eps |-> 40 * W] }

\* initial_npoints
PointCounts == {1, 2, 3, 4}

\* Regions handed to find_optimal_bounds: sequences of <<lo, hi>>.
ValidRegions == { << <<-(W \div 2), W \div 2>> >>, << <<0, W>> >> }

Regions ==
    ValidRegions \cup
    { << <<0, 0>> >>, << <<0, -1>> >>, << <<W, 0>> >>,
      << <<0, W>>, <<0, W>> >>, << <<0, W>>, <<0, -4>> >> }

\* --------------------------------------------------------- discrete solver
\* BOUNDING_METHOD_NAME_TO_FUNCTION[solver]: the solvers live in
\* SOL/discrete_bounding.py.  Contract: the coefficients returned define an
\* affine function that is, up to the slack eps, an upper bound of the
\* values at the points.  A solver is a function of its arguments; the
\* strategies modelled are [slope, lift]: how the slope of the line is
\* chosen, and where the line lies relative to the lowest line of that slope
\* that dominates every value (lift >= -eps by the contract).

SlopeRules == {"lowest", "flat", "secant", "steep", "alternate"}

Solvers(e) == [slope : SlopeRules, lift : {-e, -(e \div 2), 0, e}]

\* The slack a strategy uses.
Slack(sol) == IF sol.lift < 0 THEN -sol.lift ELSE 0

LeftMost(ps) == CHOOSE i \in Idx(ps) : \A j \in Idx(ps) : ps[i] <= ps[j]

RightMost(ps) == CHOOSE i \in Idx(ps) : \A j \in Idx(ps) : ps[j] <= ps[i]

Secant(ps, vs) ==
    LET i == LeftMost(ps)
        j == RightMost(ps)
    IN IF ps[i] = ps[j] THEN 0 ELSE (vs[j] - vs[i]) \div (ps[j] - ps[i])

\* Least intercept with which slope c dominates every value.
Tight(c, ps, vs) == SetMax({vs[i] - c * ps[i] : i \in Idx(ps)})

\* Sum over the points of line minus value, for the tight line of slope c.
Excess(c, ps, vs) ==
    LET RECURSIVE Sum(_)
        Sum(i) == IF i = 0 THEN 0
                  ELSE Sum(i - 1) + (c * ps[i] + Tight(c, ps, vs) - vs[i])
    IN Sum(Len(ps))

\* The slope of least excess among flat, secant and secant + 3.
LowestSlope(ps, vs) ==
    LET cands == {0, Secant(ps, vs), Secant(ps, vs) + 3}
    IN CHOOSE c \in cands : \A d \in cands :
          \/ Excess(c, ps, vs) < Excess(d, ps, vs)
          \/ Excess(c, ps, vs) = Excess(d, ps, vs) /\ c <= d

SolverSlope(sol, ps, vs) ==
    CASE sol.slope = "flat" -> 0
      [] sol.slope = "secant" -> Secant(ps, vs)
      [] sol.slope = "steep" -> Secant(ps, vs) + 3
      [] sol.slope = "alternate" ->
            IF Len(ps) % 2 = 0 THEN 0 ELSE Secant(ps, vs) + 3
      [] OTHER -> LowestSlope(ps, vs)

\* solver(points, values, eps)
DiscreteSolver(sol, ps, vs, e) ==
    LET c == SolverSlope(sol, ps, vs)
    IN <<c, Tight(c, ps, vs) + sol.lift>>

\* ------------------------------------------------------------------ engine

\* Mutant of ConstructorAccepts: the assertion is missing.
ConstructorAcceptsAny(n) == TRUE

\* __init__: the assertion on initial_npoints
ConstructorAccepts(n) == n > 2

\* find_optimal_bounds: the assertion on the widths
WidthsAccepted(b) == \A i \in Idx(b) : b[i][2] - b[i][1] > -WidthTol

\* Mutant of GetGBound: the assertion on the dimension is missing.
GetGBoundAnyDim(b) == [err |-> "", G |-> 1]

\* _get_G_bound
GetGBound(b) ==
    IF Len(b) = 1 THEN [err |-> "", G |-> 1]
    ELSE [err |-> "AssertG", G |-> 0]

\* _sample_points_regularly, one axis.  region_volume is the width, the
\* reference cell side is width / sample_size, and width / side is
\* sample_size for every width but 0, where numpy's 0/0 is NaN and
\* math.ceil raises ValueError.
SamplePointsRegularly(b, sampleSize) ==
    LET lo == b[1][1]
        hi == b[1][2]
        volume == hi - lo
        fail(e) == [err |-> e, points |-> <<>>, diam |-> 0, ratio |-> 0]
    IN IF volume = 0 THEN fail("ValueErrorNaN")
       ELSE LET numCells == IF volume > 0
                            THEN Ceil((hi - lo) * sampleSize, volume)
                            ELSE Ceil((lo - hi) * sampleSize, -volume)
            IN IF ~(numCells > 1) THEN fail("AssertGrid")
               ELSE LET cell == (hi - lo) \div numCells
                        first == lo + cell \div 2
                        last == hi - cell \div 2
                        cellDiam == Abs(cell)
                    IN [err |-> "",
                        points |-> [i \in 1 .. numCells |->
                            first + ((i - 1) * (last - first)) \div (numCells - 1)],
                        diam |-> cellDiam,
                        ratio |-> cell \div cellDiam]

\* Mutant of Sample: the gradient of the lower side is not negated.
SampleGradientNotNegated(t, up, p, d) ==
    [p |-> p, diam |-> d,
     act |-> IF up THEN TargetFunction(t, p) ELSE -TargetFunction(t, p),
     grad |-> Gradient(t, p)]

\* A sample: a cell (center p, diameter diam) with the value and gradient at
\* its center, negated for the lower side.
Sample(t, up, p, d) ==
    [p |-> p, diam |-> d,
     act |-> IF up THEN TargetFunction(t, p) ELSE -TargetFunction(t, p),
     grad |-> IF up THEN Gradient(t, p) ELSE -Gradient(t, p)]

\* _bound_one_side up to the loop: G, the grid, the evaluations, the
\* assertion on the number of points.
BeginSide(t, b, up, n) ==
    LET g == GetGBound(b)
        fail(e) == [err |-> e, samples |-> <<>>, ratio |-> 0, did |-> {}]
    IN IF g.err # "" THEN fail(g.err)
       ELSE LET s == SamplePointsRegularly(b, n)
            IN IF s.err # "" THEN [fail(s.err) EXCEPT !.did = {"sample"}]
               ELSE IF ~(Len(s.points) > Len(b))
                    THEN [fail("AssertPoints") EXCEPT !.did = {"sample", "eval"}]
                    ELSE [err |-> "",
                          samples |-> [i \in Idx(s.points) |->
                                          Sample(t, up, s.points[i], s.diam)],
                          ratio |-> s.ratio,
                          did |-> {"sample", "eval"}]

\* _find_discrete_upper_bound: the fit, in region coordinates.
FindDiscreteUpperBound(sol, b, ss, e) ==
    LET center == (b[1][1] + b[1][2]) \div 2
        shifted == [i \in Idx(ss) |-> ss[i].p - center]
        values == [i \in Idx(ss) |-> ss[i].act]
        result == DiscreteSolver(sol, shifted, values, e)
    IN <<result[1], result[2] - result[1] * center>>

BoundDiff(co, s) == co[1] * s.p + co[2] - s.act

\* Mutant of Diffs: bound_diff is added instead of subtracted.
DiffsPlus(co, s, g, l1) == (1 + g) * l1 * (s.diam \div 2) + BoundDiff(co, s)

\* diffs: (1 + G) * L1 * (cell_diams / 2) - bound_diff
Diffs(co, s, g, l1) == (1 + g) * l1 * (s.diam \div 2) - BoundDiff(co, s)

\* diffs2: |lin_grad - point_grad| * r + 0.5 * L2 * r^2 - bound_diff
Diffs2(co, s, l2) ==
    Abs(co[1] - s.grad) * (s.diam \div 2)
    + (l2 * (s.diam \div 2) * (s.diam \div 2)) \div 2
    - BoundDiff(co, s)

MinDiffs(co, s, l1, l2) == Min2(Diffs(co, s, 1, l1), Diffs2(co, s, l2))

\* Mutant of Holds: a margin of exactly eps holds too.
HoldsInclusive(co, s, l1, l2, e) == MinDiffs(co, s, l1, l2) <= e

\* holds = min_diffs < self.eps
Holds(co, s, l1, l2, e) == MinDiffs(co, s, l1, l2) < e

AllHold(co, ss, l1, l2, e) == \A i \in Idx(ss) : Holds(co, ss[i], l1, l2, e)

SetMin(S) == CHOOSE x \in S : \A y \in S : x <= y

\* Mutant of Returned: the intercept is shifted by the least margin.
ReturnedLeastShift(co, ss, up, l1, l2) ==
    LET m == SetMin({MinDiffs(co, ss[i], l1, l2) : i \in Idx(ss)})
        shifted == <<co[1], co[2] + m>>
    IN IF up THEN shifted ELSE NegCoeffs(shifted)

\* The coefficients returned when every sample holds.
Returned(co, ss, up, l1, l2) ==
    LET m == SetMax({MinDiffs(co, ss[i], l1, l2) : i \in Idx(ss)})
        shifted == <<co[1], co[2] + m>>
    IN IF up THEN shifted ELSE NegCoeffs(shifted)

\* Mutant of Child: the children of the lower side are not negated.
ChildNotNegated(t, up, s, sign, rat) ==
    Sample(t, TRUE, s.p + (sign * s.diam * rat) \div 4, s.diam \div 2)

\* Mutant of Child: the offset is half the diameter, not a quarter.
ChildHalfOffset(t, up, s, sign, rat) ==
    Sample(t, up, s.p + (sign * s.diam * rat) \div 2, s.diam \div 2)

\* The child of cell s in the subcube of the given sign (-1, +1).
Child(t, up, s, sign, rat) ==
    Sample(t, up, s.p + (sign * s.diam * rat) \div 4, s.diam \div 2)

\* The next working set: the samples that hold, then the children of the
\* others, subcube by subcube.
Subdivide(t, up, co, ss, rat, l1, l2, e) ==
    LET holds(s) == Holds(co, s, l1, l2, e)
        fails(s) == ~Holds(co, s, l1, l2, e)
        keep == SelectSeq(ss, holds)
        split == SelectSeq(ss, fails)
    IN keep \o [i \in Idx(split) |-> Child(t, up, split[i], -1, rat)]
            \o [i \in Idx(split) |-> Child(t, up, split[i], 1, rat)]

\* Diameter of the cells of level MaxDepth.
MinDiam(b, n) == (Abs(b[1][2] - b[1][1]) \div n) \div (2 ^ MaxDepth)

\* Every cell to split is above level MaxDepth.
CanSplit(co, ss, b, n, l1, l2, e) ==
    \A i \in Idx(ss) :
        IF Holds(co, ss[i], l1, l2, e) THEN TRUE ELSE ss[i].diam > MinDiam(b, n)

\* ------------------------------------------------------------------- state

VARIABLES
    pc,        \* new, ready, enter, fit, certify, done, failed
    err,       \* the error that ended the call, "" if none
    target,    \* self.target_function and self.gradient
    L1, L2, eps,
    npoints,   \* self.initial_number_of_points
    solver,    \* self.discrete_solver
    bound,     \* the region of the call, <<>> before it
    upper,     \* the side _bound_one_side computes
    iter,      \* iterations of the loop started on this side
    samples,   \* points, cell_diams, point_act, point_grad
    ratio,     \* side_to_diam_ratio
    coeffs,    \* coeffs of the current iteration, <<>> before the fit
    lowerOut,  \* the lower coefficients returned, <<>> before
    upperOut,  \* the upper coefficients returned, <<>> before
    did,       \* what the call has done: sample, eval, solve, split
    mir        \* a second bounder, for -f and -g: its upper side

vars == <<pc, err, target, L1, L2, eps, npoints, solver, bound, upper, iter,
          samples, ratio, coeffs, lowerOut, upperOut, did, mir>>

config == <<target, L1, L2, eps, npoints, solver>>

MirIdle == [pc |-> "idle", err |-> "", iter |-> 0, samples |-> <<>>,
            ratio |-> 0, coeffs |-> <<>>, out |-> <<>>]

Init ==
    /\ pc = "new"
    /\ err = ""
    /\ \E sc \in Scenarios :
          /\ target = sc.target
          /\ L1 = sc.L1
          /\ L2 = sc.L2
          /\ eps = sc.eps
          /\ solver \in Solvers(sc.eps)
    /\ npoints \in PointCounts
    /\ bound = <<>>
    /\ upper = FALSE
    /\ iter = 0
    /\ samples = <<>>
    /\ ratio = 0
    /\ coeffs = <<>>
    /\ lowerOut = <<>>
    /\ upperOut = <<>>
    /\ did = {}
    /\ mir = MirIdle

\* OptimalLinearBounder(...)
Construct ==
    /\ pc = "new"
    /\ IF ConstructorAccepts(npoints)
       THEN pc' = "ready" /\ err' = err
       ELSE pc' = "failed" /\ err' = "AssertInitialPoints"
    /\ UNCHANGED <<config, bound, upper, iter, samples, ratio, coeffs,
                   lowerOut, upperOut, did, mir>>

\* find_optimal_bounds(b), up to the first call of _bound_one_side
FindOptimalBounds ==
    /\ pc = "ready"
    /\ \E b \in Regions :
          /\ bound' = b
          /\ IF WidthsAccepted(b)
             THEN pc' = "enter" /\ err' = err
             ELSE pc' = "failed" /\ err' = "AssertWidth"
    /\ upper' = FALSE
    /\ UNCHANGED <<config, iter, samples, ratio, coeffs, lowerOut, upperOut,
                   did, mir>>

\* _bound_one_side(bound, upper), up to the loop
EnterSide ==
    /\ pc = "enter"
    /\ LET r == BeginSide(target, bound, upper, npoints)
       IN /\ did' = did \cup r.did
          /\ samples' = r.samples
          /\ ratio' = r.ratio
          /\ IF r.err = ""
             THEN pc' = "fit" /\ err' = err
             ELSE pc' = "failed" /\ err' = r.err
    /\ iter' = 0
    /\ coeffs' = <<>>
    /\ UNCHANGED <<config, bound, upper, lowerOut, upperOut, mir>>

\* The loop: coeffs = self._find_discrete_upper_bound(...)
Fit ==
    /\ pc = "fit"
    /\ coeffs' = FindDiscreteUpperBound(solver, bound, samples, eps)
    /\ pc' = "certify"
    /\ iter' = iter + 1
    /\ did' = did \cup {"solve"}
    /\ UNCHANGED <<config, err, bound, upper, samples, ratio, lowerOut,
                   upperOut, mir>>

\* The loop: every sample holds, and the side returns
Certified ==
    /\ pc = "certify"
    /\ AllHold(coeffs, samples, L1, L2, eps)
    /\ IF upper
       THEN /\ upperOut' = Returned(coeffs, samples, upper, L1, L2)
            /\ pc' = "done"
            /\ UNCHANGED <<lowerOut, upper>>
       ELSE /\ lowerOut' = Returned(coeffs, samples, upper, L1, L2)
            /\ pc' = "enter"
            /\ upper' = TRUE
            /\ UNCHANGED upperOut
    /\ UNCHANGED <<config, err, bound, iter, samples, ratio, coeffs, did, mir>>

\* The loop: some sample does not hold, and its cell is split
Refine ==
    /\ pc = "certify"
    /\ ~AllHold(coeffs, samples, L1, L2, eps)
    /\ CanSplit(coeffs, samples, bound, npoints, L1, L2, eps)
    /\ samples' = Subdivide(target, upper, coeffs, samples, ratio, L1, L2, eps)
    /\ pc' = "fit"
    /\ did' = did \cup {"split"}
    /\ UNCHANGED <<config, err, bound, upper, iter, ratio, coeffs, lowerOut,
                   upperOut, mir>>

Next == Construct \/ FindOptimalBounds \/ EnterSide \/ Fit \/ Certified \/ Refine

Spec == Init /\ [][Next]_vars

\* ------------------------------------------------- the bounder for -f, -g
\* A second bounder, built with the negated target and gradient and the same
\* L1, L2, eps, initial_npoints and solver, is asked for the
\* same region; mir follows the upper side of its find_optimal_bounds.

MirrorEnter ==
    /\ mir.pc = "idle"
    /\ bound # <<>>
    /\ WidthsAccepted(bound)
    /\ LET r == BeginSide(Neg(target), bound, TRUE, npoints)
       IN mir' = [mir EXCEPT !.pc = IF r.err = "" THEN "fit" ELSE "failed",
                              !.err = r.err,
                              !.samples = r.samples,
                              !.ratio = r.ratio]
    /\ UNCHANGED <<pc, err, config, bound, upper, iter, samples, ratio, coeffs,
                   lowerOut, upperOut, did>>

MirrorFit ==
    /\ mir.pc = "fit"
    /\ mir' = [mir EXCEPT !.pc = "certify",
                           !.coeffs = FindDiscreteUpperBound(solver, bound,
                                                             mir.samples, eps),
                           !.iter = @ + 1]
    /\ UNCHANGED <<pc, err, config, bound, upper, iter, samples, ratio, coeffs,
                   lowerOut, upperOut, did>>

MirrorCertified ==
    /\ mir.pc = "certify"
    /\ AllHold(mir.coeffs, mir.samples, L1, L2, eps)
    /\ mir' = [mir EXCEPT !.pc = "done",
                           !.out = Returned(mir.coeffs, mir.samples, TRUE, L1, L2)]
    /\ UNCHANGED <<pc, err, config, bound, upper, iter, samples, ratio, coeffs,
                   lowerOut, upperOut, did>>

MirrorRefine ==
    /\ mir.pc = "certify"
    /\ ~AllHold(mir.coeffs, mir.samples, L1, L2, eps)
    /\ CanSplit(mir.coeffs, mir.samples, bound, npoints, L1, L2, eps)
    /\ mir' = [mir EXCEPT !.pc = "fit",
                           !.samples = Subdivide(Neg(target), TRUE, mir.coeffs,
                                                 mir.samples, mir.ratio, L1, L2, eps)]
    /\ UNCHANGED <<pc, err, config, bound, upper, iter, samples, ratio, coeffs,
                   lowerOut, upperOut, did>>

SymNext ==
    \/ Construct \/ FindOptimalBounds \/ EnterSide \/ Fit \/ Certified \/ Refine
    \/ MirrorEnter \/ MirrorFit \/ MirrorCertified \/ MirrorRefine

SymSpec == Init /\ [][SymNext]_vars

\* ------------------------------------------------------------------ claims

Called == bound # <<>>

Lo == bound[1][1]

Hi == bound[1][2]

At(co, x) == co[1] * x + co[2]

\* Radius of the cells of the initial grid.
R0 == (Abs(Hi - Lo) \div npoints) \div 2

\* The loop cannot be followed further: a cell of level MaxDepth must be split.
Overrun ==
    /\ pc = "certify"
    /\ ~AllHold(coeffs, samples, L1, L2, eps)
    /\ ~CanSplit(coeffs, samples, bound, npoints, L1, L2, eps)

\* C1 (as claimed): when find_optimal_bounds has returned, at every point x
\* of the region lower(x) <= f(x) <= upper(x) + eps.
C1_Soundness ==
    pc = "done" =>
        \A x \in Lo .. Hi :
            /\ At(lowerOut, x) <= TargetFunction(target, x)
            /\ TargetFunction(target, x) <= At(upperOut, x) + eps

\* C1 (supporting): the bounds returned are sound, without tolerance,
\* whenever the slope of both is at most L1 in absolute value.
C1_SoundWithinL1 ==
    (pc = "done" /\ Abs(lowerOut[1]) <= L1 /\ Abs(upperOut[1]) <= L1) =>
        \A x \in Lo .. Hi :
            /\ At(lowerOut, x) <= TargetFunction(target, x)
            /\ TargetFunction(target, x) <= At(upperOut, x)

\* C2 (as claimed): with a solver that keeps its contract (slack <= eps) the
\* loop always comes to an iteration in which every sample holds: no run
\* subdivides past every level.
C2_Original == Slack(solver) <= eps => ~Overrun

\* C2 (amended): with a solver whose slack is strictly below eps, a cell is
\* only ever split while (1 + G) * L1 * radius >= eps - slack, so every cell
\* of the working set that is a child has (1 + G) * L1 * diameter >= eps - slack,
\* which bounds the depth of subdivision, and no run subdivides past every
\* level.
C2_Termination ==
    Slack(solver) < eps =>
        /\ ~Overrun
        /\ \A i \in Idx(samples) :
              samples[i].diam < 2 * R0 =>
                  2 * L1 * samples[i].diam >= eps - Slack(solver)

\* C2, witness: a strategy that uses slack below eps returned after cells
\* were split down to level MaxDepth.
C2_Witness ==
    /\ Slack(solver) < eps
    /\ Slack(solver) > 0
    /\ pc = "done"
    /\ \E i \in Idx(samples) : samples[i].diam = MinDiam(bound, npoints)

\* C3: with a deterministic solver the lower coefficients for (f, g) are the
\* negated upper coefficients for (-f, -g), and iteration by iteration the
\* lower side for f has the working set and the fit of the upper side for -f.
C3_SignSymmetry ==
    /\ (~upper /\ pc \in {"fit", "certify"} /\ mir.pc = pc /\ mir.iter = iter)
          => (samples = mir.samples /\ ratio = mir.ratio /\ coeffs = mir.coeffs)
    /\ (lowerOut # <<>> /\ mir.pc = "done") => lowerOut = NegCoeffs(mir.out)
    /\ (lowerOut # <<>> /\ mir.pc \in {"done", "failed"}) => mir.pc = "done"

\* C3, witness: both bounders returned a sloped line after a subdivision.
C3_Witness ==
    /\ lowerOut # <<>>
    /\ mir.pc = "done"
    /\ mir.iter > 1
    /\ lowerOut[1] # 0
    /\ lowerOut[2] # 0

\* C4 (as claimed): a call with an interval of width <= 0 ends with the
\* width error before it samples, evaluates or solves, and returns nothing.
C4_Original ==
    (Called /\ \E i \in Idx(bound) : bound[i][2] - bound[i][1] <= 0) =>
        /\ pc = "failed"
        /\ err = "AssertWidth"
        /\ did = {}
        /\ lowerOut = <<>>
        /\ upperOut = <<>>

\* C5 (as claimed): with initial_npoints = 1 the computation ends with the
\* sampler's grid error, raised during find_optimal_bounds.
C5_Original ==
    (npoints = 1 /\ pc \in {"done", "failed"}) => (Called /\ err = "AssertGrid")

\* C5 (amended): a bounder with initial_npoints <= 2 is refused by the
\* constructor, so that no call of find_optimal_bounds is made on it; the
\* sampler refuses a sample size that gives one cell, and a constructed
\* bounder never reaches that refusal.
C5_TooFewPoints ==
    /\ npoints <= 2 =>
          /\ pc \in {"new", "failed"}
          /\ pc = "failed" => err = "AssertInitialPoints"
          /\ ~Called
          /\ did = {}
    /\ \A b \in ValidRegions : SamplePointsRegularly(b, 1).err = "AssertGrid"
    /\ err # "AssertGrid"

\* C5, witness: initial_npoints = 1 was refused by the constructor.
C5_Witness == npoints = 1 /\ pc = "failed" /\ err = "AssertInitialPoints"

\* C6 (as claimed): G is 1 in one dimension, and every call with a region of
\* more than one axis ends with the G error, before sampling and evaluation,
\* and returns nothing.
C6_Original ==
    /\ (Called /\ Len(bound) = 1) => GetGBound(bound) = [err |-> "", G |-> 1]
    /\ (Called /\ Len(bound) > 1) =>
          /\ pc \in {"enter", "failed"}
          /\ pc = "failed" => err = "AssertG"
          /\ did = {}
          /\ lowerOut = <<>>
          /\ upperOut = <<>>

\* C6 (amended): G is 1 in one dimension, and every call with a region of
\* more than one axis returns nothing and neither samples nor evaluates; it
\* ends with the G error when every width passes the width check, and with
\* the width error otherwise.
C6_DimensionLimit ==
    /\ (Called /\ Len(bound) = 1) => GetGBound(bound) = [err |-> "", G |-> 1]
    /\ (Called /\ Len(bound) > 1) =>
          /\ pc \in {"enter", "failed"}
          /\ pc = "enter" => WidthsAccepted(bound)
          /\ pc = "failed" =>
                err = IF WidthsAccepted(bound) THEN "AssertG" ELSE "AssertWidth"
          /\ did = {}
          /\ lowerOut = <<>>
          /\ upperOut = <<>>

\* C6, witness: a call with two axes ended with the G error.
C6_Witness == Called /\ Len(bound) = 2 /\ pc = "failed" /\ err = "AssertG"

Linear == target.q = 0 /\ L1 >= Abs(target.a)

WithinEps(co) ==
    /\ Abs(co[1] - target.a) <= eps
    /\ Abs(co[2] - target.b) <= eps

\* C7 (as claimed): for a line a*x + b with L1 >= |a|, both coefficient
\* vectors returned are within eps of (a, b) and no cell was ever split.
C7_Original ==
    (pc = "done" /\ Linear) =>
        /\ WithinEps(lowerOut)
        /\ WithinEps(upperOut)
        /\ "split" \notin did

\* C7 (amended): for a line a*x + b with L1 >= |a| and the solver that
\* returns the lowest dominating line (slack 0), both vectors returned have
\* slope a, the upper intercept is in [b, b + eps) and the lower one in
\* (b - eps, b]; cells were split exactly when neither Lipschitz term of the
\* initial grid, 2 * L1 * r and L2 * r^2 / 2, is below eps.
C7_LinearExactness ==
    (pc = "done" /\ Linear /\ solver.slope = "lowest" /\ solver.lift = 0) =>
        /\ lowerOut[1] = target.a
        /\ upperOut[1] = target.a
        /\ target.b <= upperOut[2] /\ upperOut[2] < target.b + eps
        /\ target.b - eps < lowerOut[2] /\ lowerOut[2] <= target.b
        /\ "split" \in did <=> Min2(2 * L1 * R0, (L2 * R0 * R0) \div 2) >= eps

\* C7, witness: a sloped line, the lowest-line solver, a region that is not
\* centered at 0, and cells were split before both sides returned.
C7_Witness ==
    /\ pc = "done"
    /\ Linear
    /\ target.a # 0
    /\ solver.slope = "lowest"
    /\ solver.lift = 0
    /\ "split" \in did
    /\ Lo # -Hi

\* The cell of sample s contains x: |x - p| <= side / 2, side = ratio * diam.
InCell(x, s, rat) == 2 * Abs(x - s.p) <= rat * s.diam

\* C8: at the start of every iteration of the loop the cells of the working
\* set cover the region.
C8_Coverage ==
    pc = "fit" =>
        \A x \in Lo .. Hi : \E i \in Idx(samples) : InCell(x, samples[i], ratio)

\* C8, witness: an iteration starts with cells of level MaxDepth.
C8_Witness ==
    /\ pc = "fit"
    /\ "split" \in did
    /\ \E i \in Idx(samples) : samples[i].diam = MinDiam(bound, npoints)

Margin(s) == MinDiffs(coeffs, s, L1, L2)

Uncertified == {i \in Idx(samples) : Margin(samples[i]) >= eps}

\* C9: an iteration that does not return carries every sample with margin
\* < eps unchanged into the next working set, and replaces every sample with
\* margin >= eps by its two children: half the diameter, centers a quarter
\* of ratio * diameter to either side; the set grows by the number of
\* samples replaced, which is at least one.
C9_Subdivision ==
    [][(pc = "certify" /\ pc' = "fit") =>
          /\ Uncertified # {}
          /\ Len(samples') = Len(samples) + Cardinality(Uncertified)
          /\ \A i \in Idx(samples) \ Uncertified :
                \E j \in Idx(samples') : samples'[j] = samples[i]
          /\ \A i \in Uncertified :
                /\ \A j \in Idx(samples') : samples'[j].p # samples[i].p
                /\ \A sign \in {-1, 1} :
                      Cardinality({ j \in Idx(samples') :
                          /\ 4 * (samples'[j].p - samples[i].p)
                                = sign * ratio * samples[i].diam
                          /\ 2 * samples'[j].diam = samples[i].diam }) = 1
          /\ ratio' = ratio]_vars

\* C9, witness: an iteration starts after at least two cells were split.
C9_Witness ==
    /\ pc = "fit"
    /\ "split" \in did
    /\ Len(samples) > npoints + 1

\* The state right after a side returned: coeffs and samples are still those
\* of its last iteration.
ReturnedLower == pc = "enter" /\ upper /\ lowerOut # <<>>

ReturnedUpper == pc = "done"

MaxMargin == SetMax({Margin(samples[i]) : i \in Idx(samples)})

\* C10: when a side returns, the intercept was shifted by the greatest
\* margin M, M < eps, and the returned line dominates f at the center of
\* every sample of the final working set (upper side), or is dominated by it
\* (lower side).
C10_CenterDominance ==
    /\ ReturnedUpper =>
          /\ upperOut = <<coeffs[1], coeffs[2] + MaxMargin>>
          /\ MaxMargin < eps
          /\ \A i \in Idx(samples) :
                At(upperOut, samples[i].p) >= TargetFunction(target, samples[i].p)
    /\ ReturnedLower =>
          /\ lowerOut = <<-coeffs[1], -(coeffs[2] + MaxMargin)>>
          /\ MaxMargin < eps
          /\ \A i \in Idx(samples) :
                At(lowerOut, samples[i].p) <= TargetFunction(target, samples[i].p)

\* C10, witness: the upper side returned with the intercept lowered.
C10_Witness ==
    /\ ReturnedUpper
    /\ lowerOut # <<>>
    /\ MaxMargin < 0
    /\ upperOut[2] < coeffs[2]

====
